---- MODULE Spec2Model ----
(***************************************************************************)
(* A model of vmupdate/qube_connection.py (class QubeConnection) and of    *)
(* vmupdate/agent/source/status.py.                                        *)
(*                                                                         *)
(* Byte strings (bytes) and text (str) are sequences of code points.       *)
(* Four specifications share the module:                                   *)
(*   Spec        the session: __enter__, the three operations, __exit__    *)
(*   StreamSpec  one streamed command with its process and its two pipes   *)
(*   OutSpec     _run_shell_command_in_qube over every captured output     *)
(*   CallSpec    run_entrypoint, and both strategies, over every exit code *)
(***************************************************************************)
EXTENDS Integers, Sequences, FiniteSets, TLC

VARIABLES
    \* ---- the session object and its collaborators (Spec)
    phase,              \* "new" | "in" | "out": where the caller is w.r.t. the with-scope
    connected,          \* self.__connected
    initially_running,  \* self._initially_running: "None" | "True" | "False"
    status_notified,    \* self.status_notified
    cleanup,            \* self.cleanup
    show_progress,      \* self.show_progress
    sink,               \* self.status_notifier: the events put so far
    running,            \* the target's state when the session last looked or acted
    issued,             \* the command steps of the last call, in order
    last,               \* what the last call returned or raised
    exitinfo,           \* what the last __exit__ did
    nops,               \* operations called on the object so far
    scope_ops,          \* operations called since the last __enter__
    sessions,           \* __enter__ calls so far
    seen100,            \* commands whose substrate exit code was 100 so far
    \* ---- one streamed command (StreamSpec)
    pw,                 \* the write the process is blocked in: <<>> or <<write>>
    nwrites,            \* writes the process has started
    errpipe,            \* lines in the diagnostic pipe
    outpipe,            \* lines in the standard pipe
    pexited,            \* the process has exited (both write ends closed)
    returncode,         \* proc.returncode
    rpc,                \* the reader's position in the streaming strategy
    stderr_buf,         \* _collect_stderr's local stderr
    stdout_buf,         \* _collect_stdout's local stdout
    progress_finished,  \* _collect_stderr's latch
    consumed,           \* diagnostic lines read so far
    closed,             \* channels the reader has closed
    waited_after,       \* the closed channels when proc.wait() returned
    sresult,            \* what the streamed command returned
    \* ---- one command over arbitrary captured bytes (OutSpec)
    input,              \* the substrate's behaviour for the command
    output              \* what _run_shell_command_in_qube returned

vars == <<phase, connected, initially_running, status_notified, cleanup,
          show_progress, sink, running, issued, last, exitinfo, nops,
          scope_ops, sessions, seen100,
          pw, nwrites, errpipe, outpipe, pexited, returncode, rpc,
          stderr_buf, stdout_buf, progress_finished, consumed, closed,
          waited_after, sresult,
          input, output>>

sessionVars == <<phase, connected, initially_running, status_notified, cleanup,
                 show_progress, running, issued, last, exitinfo, nops,
                 scope_ops, sessions, seen100>>

streamVars == <<pw, nwrites, errpipe, outpipe, pexited, returncode, rpc,
                stderr_buf, stdout_buf, progress_finished, consumed, closed,
                waited_after, sresult>>

outVars == <<input, output>>

None == "None"

\* Python's bool as text, so that it shares a type with None
PyBool(b) == IF b THEN "True" ELSE "False"

\* Python's truth value of None / True / False
Truthy(x) == x = "True"

(***************************************************************************)
(* Bounds of the model.                                                    *)
(***************************************************************************)
MaxOps == 2         \* operations called on one session object
MaxSessions == 2    \* times one object's scope is entered
MaxWrites == 3      \* lines one streamed process writes
PipeCap == 2        \* lines a pipe holds before its writer blocks
MaxRaw == 3         \* bytes one command's captured output holds

(***************************************************************************)
(* status.py                                                               *)
(***************************************************************************)
QubeName == "qube"

StatusInfo(status, info) == [qname |-> QubeName, status |-> status, info |-> info]

StatusInfo_pending(percent) == StatusInfo("pending", percent)

StatusInfo_done(final) == StatusInfo("done", final)

SUCCESS == "success"

NO_UPDATES == "no updates"

\* the substrate's exit code that both strategies remap
UpdateCheckCode == 100

(***************************************************************************)
(* Text helpers of Python the code relies on.                              *)
(***************************************************************************)
Max(a, b) == IF a >= b THEN a ELSE b

Last(s) == s[Len(s)]

Front(s) == SubSeq(s, 1, Len(s) - 1)

RECURSIVE Flatten(_)
Flatten(ss) == IF ss = <<>> THEN <<>> ELSE Head(ss) \o Flatten(Tail(ss))

\* str.isspace() for the code points below 128
IsSpace(c) == c \in (9..13) \cup (28..32)

\* the line boundaries of str.splitlines() below 128
IsLineBreak(c) == c \in (10..13) \cup (28..30)

IsDigit(c) == c \in 48..57

\* bytes.decode(): strict UTF-8.  A byte below 0x80 is itself; the bytes of
\* the model's alphabets from 0x80 up (0xFF) start no valid sequence.
CanDecode(b) == \A i \in 1..Len(b) : b[i] < 128

\* bytes.decode('ascii', errors='ignore')
DecodeAsciiIgnore(b) == SelectSeq(b, LAMBDA c : c < 128)

RECURSIVE rstrip(_)
rstrip(s) == IF s # <<>> /\ IsSpace(Last(s)) THEN rstrip(Front(s)) ELSE s

RECURSIVE lstrip(_)
lstrip(s) == IF s # <<>> /\ IsSpace(Head(s)) THEN lstrip(Tail(s)) ELSE s

\* str.splitlines(): cur is the line being read.  "\r\n" is one boundary;
\* a final line without a boundary is kept unless it is empty.
RECURSIVE SplitFrom(_, _)
SplitFrom(s, cur) ==
    IF s = <<>> THEN (IF cur = <<>> THEN <<>> ELSE <<cur>>)
    ELSE IF IsLineBreak(Head(s))
         THEN LET rest == IF Head(s) = 13 /\ Len(s) >= 2 /\ s[2] = 10
                          THEN Tail(Tail(s)) ELSE Tail(s)
              IN  <<cur>> \o SplitFrom(rest, <<>>)
         ELSE SplitFrom(Tail(s), Append(cur, Head(s)))

splitlines(s) == SplitFrom(s, <<>>)

\* file.readline() over a finished byte stream: the lines, each with its "\n"
RECURSIVE ReadLinesFrom(_, _)
ReadLinesFrom(b, cur) ==
    IF b = <<>> THEN (IF cur = <<>> THEN <<>> ELSE <<cur>>)
    ELSE IF Head(b) = 10
         THEN <<Append(cur, 10)>> \o ReadLinesFrom(Tail(b), <<>>)
         ELSE ReadLinesFrom(Tail(b), Append(cur, Head(b)))

ReadLines(b) == ReadLinesFrom(b, <<>>)

RECURSIVE DigitsValue(_)
DigitsValue(ds) == IF ds = <<>> THEN 0 ELSE 10 * DigitsValue(Front(ds)) + (Last(ds) - 48)

RECURSIVE StripZeros(_)
StripZeros(ds) == IF ds # <<>> /\ Last(ds) = 48 THEN StripZeros(Front(ds)) ELSE ds

\* float(line) for the texts of the model's alphabets (digits, '.', other
\* characters): surrounding whitespace is ignored, then digits with at most
\* one '.' and at least one digit.  The value is the integer part and the
\* fraction digits without trailing zeros; ok = FALSE is ValueError.
ParseFloat(line) ==
    LET t == rstrip(lstrip(line))
        dots == {i \in 1..Len(t) : t[i] = 46}
        p == IF dots = {} THEN Len(t) + 1 ELSE CHOOSE i \in dots : TRUE
        ip == SubSeq(t, 1, p - 1)
        fp == SubSeq(t, p + 1, Len(t))
        good == /\ Cardinality(dots) <= 1
                /\ \A i \in 1..Len(t) : IsDigit(t[i]) \/ t[i] = 46
                /\ Len(ip) + Len(fp) >= 1
    IN  IF good THEN [ok |-> TRUE, int |-> DigitsValue(ip), frac |-> StripZeros(fp)]
        ELSE [ok |-> FALSE, int |-> 0, frac |-> <<>>]

\* progress == 100.
IsHundred(v) == v.int = 100 /\ v.frac = <<>>

(***************************************************************************)
(* QubeConnection._string_sanitization and QubeConnection._collect_output  *)
(***************************************************************************)
string_sanitization_replaces(line) ==
    [i \in 1..Len(line) |-> IF 32 <= line[i] /\ line[i] <= 126 THEN line[i] ELSE 63]

string_sanitization_keepsDel(line) == SelectSeq(line, LAMBDA c : 32 <= c /\ c <= 127)

string_sanitization(line) == SelectSeq(line, LAMBDA c : 32 <= c /\ c <= 126)

collect_output(untrusted_stdout, untrusted_stderr) ==
    LET text == DecodeAsciiIgnore(untrusted_stdout) \o DecodeAsciiIgnore(untrusted_stderr)
        ls == splitlines(text)
    IN  [i \in 1..Len(ls) |-> string_sanitization(ls[i])]

(***************************************************************************)
(* The execution substrate's behaviour for one command, an input of the    *)
(* model: run_with_args returns (kind "ok"), raises CalledProcessError     *)
(* (kind "cpe": returncode, and stdout is err.output) or raises another    *)
(* error (kind "raise"); run_service yields a process (kind "proc") that   *)
(* writes stderr and stdout and exits with returncode, or raises.          *)
(***************************************************************************)
Outcome(kind, code, out, err) ==
    [kind |-> kind, returncode |-> code, stdout |-> out, stderr |-> err]

Raise == Outcome("raise", 0, <<>>, <<>>)

\* what a command runner hands back: raised is None or the error's name
Ran(raised, code, out, events, notified) ==
    [raised |-> raised, ret_code |-> code, out |-> out, events |-> events,
     notified |-> notified]

(***************************************************************************)
(* QubeConnection._run_command_and_wait_for_output                         *)
(***************************************************************************)
run_command_and_wait_for_output_singleCapture(o) ==
    CASE o.kind = "ok" -> Ran(None, 0, <<o.stdout, o.stderr>>, <<>>, FALSE)
      [] o.kind = "cpe" ->
            IF o.returncode = UpdateCheckCode
            THEN Ran(None, 0, <<o.stdout, <<>>>>,
                     <<StatusInfo_done(NO_UPDATES)>>, TRUE)
            ELSE Ran(None, o.returncode, <<o.stdout, <<>>>>, <<>>, FALSE)
      [] OTHER -> Ran("SubstrateError", 0, <<<<>>, <<>>>>, <<>>, FALSE)

run_command_and_wait_for_output(o) ==
    CASE o.kind = "ok" -> Ran(None, 0, <<o.stdout, o.stderr>>, <<>>, FALSE)
      [] o.kind = "cpe" ->
            IF o.returncode = UpdateCheckCode
            THEN Ran(None, 0, <<o.stdout, o.stdout>>,
                     <<StatusInfo_done(NO_UPDATES)>>, TRUE)
            ELSE Ran(None, o.returncode, <<o.stdout, o.stdout>>, <<>>, FALSE)
      [] OTHER -> Ran("SubstrateError", 0, <<<<>>, <<>>>>, <<>>, FALSE)

(***************************************************************************)
(* QubeConnection._collect_stderr: one turn of its loop on a line read,    *)
(* and the whole loop over the lines of a finished stream.  st is the      *)
(* loop's state: stderr, progress_finished, the events put, raised.        *)
(***************************************************************************)
StderrState(buf, latch, events, raised) ==
    [stderr |-> buf, progress_finished |-> latch, events |-> events, raised |-> raised]

collect_stderr_line(st, untrusted_line) ==
    IF st.progress_finished
    THEN [st EXCEPT !.stderr = @ \o untrusted_line]
    ELSE IF ~CanDecode(untrusted_line)
         THEN [st EXCEPT !.raised = "UnicodeDecodeError"]
         ELSE LET line == string_sanitization(rstrip(untrusted_line))
                  progress == ParseFloat(line)
              IN  IF ~progress.ok
                  THEN [st EXCEPT !.stderr = @ \o untrusted_line]
                  ELSE [st EXCEPT
                          !.progress_finished = IsHundred(progress),
                          !.events = Append(@, StatusInfo_pending(
                                        [int |-> progress.int, frac |-> progress.frac]))]

RECURSIVE collect_stderr_loop(_, _)
collect_stderr_loop(st, lines) ==
    IF lines = <<>> \/ st.raised # None THEN st
    ELSE collect_stderr_loop(collect_stderr_line(st, Head(lines)), Tail(lines))

collect_stderr(lines) == collect_stderr_loop(StderrState(<<>>, FALSE, <<>>, None), lines)

\* QubeConnection._collect_stdout
collect_stdout(lines) == Flatten(lines)

(***************************************************************************)
(* QubeConnection._run_command_and_actively_report_progress, for a process *)
(* whose streams could be drained (StreamSpec models the draining itself). *)
(***************************************************************************)
\* the exit-code remap at the end of the streaming strategy
remap_returncode_keepsCode(code) ==
    IF code = UpdateCheckCode
    THEN [ret_code |-> code, events |-> <<StatusInfo_done(NO_UPDATES)>>, notified |-> TRUE]
    ELSE [ret_code |-> code, events |-> <<>>, notified |-> FALSE]

remap_returncode(code) ==
    IF code = UpdateCheckCode
    THEN [ret_code |-> 0, events |-> <<StatusInfo_done(NO_UPDATES)>>, notified |-> TRUE]
    ELSE [ret_code |-> code, events |-> <<>>, notified |-> FALSE]

\* e is what _collect_stderr did, stdout what _collect_stdout returned, m the
\* remap of proc.returncode
report_progress_result(e, stdout, m) ==
    IF e.raised # None
    THEN Ran(e.raised, 0, <<<<>>, <<>>>>, e.events, FALSE)
    ELSE Ran(None, m.ret_code, <<stdout, e.stderr>>, e.events \o m.events, m.notified)

run_command_and_actively_report_progress(o) ==
    IF o.kind # "proc" THEN Ran("SubstrateError", 0, <<<<>>, <<>>>>, <<>>, FALSE)
    ELSE report_progress_result(collect_stderr(ReadLines(o.stderr)),
                                collect_stdout(ReadLines(o.stdout)),
                                remap_returncode(o.returncode))

(***************************************************************************)
(* QubeConnection._run_shell_command_in_qube                               *)
(***************************************************************************)
Shell(raised, code, lines, events, notified) ==
    [raised |-> raised, ret_code |-> code, lines |-> lines, events |-> events,
     notified |-> notified]

\* r is what the strategy handed back
shell_result(r) ==
    Shell(r.raised, r.ret_code,
          IF r.raised # None THEN <<>> ELSE collect_output(r.out[1], r.out[2]),
          r.events, r.notified)

run_shell_command_in_qube(show, o) ==
    shell_result(IF ~show THEN run_command_and_wait_for_output(o)
                 ELSE run_command_and_actively_report_progress(o))

(***************************************************************************)
(* The operations of a session.  Each is an operator from the object's     *)
(* state and the substrate's behaviour to what the call returns or raises, *)
(* the events it puts, and the commands it issues to the target.           *)
(***************************************************************************)
Op(raised, code, lines, events, notified, cmds) ==
    [raised |-> raised, code |-> code, lines |-> lines, events |-> events,
     notified |-> notified, cmds |-> cmds]

\* one issued command: the substrate's exit code and the code handed back
Cmd(name, o, r) ==
    [cmd |-> name, kind |-> o.kind, sub |-> o.returncode, ret |-> r.ret_code,
     raised |-> r.raised]

\* str(n) for the exit codes of the model
IntToStr(n) ==
    LET d(k) == <<48 + k>>
        nat(m) == IF m < 10 THEN d(m)
                  ELSE IF m < 100 THEN d(m \div 10) \o d(m % 10)
                  ELSE d(m \div 100) \o d((m \div 10) % 10) \o d(m % 10)
    IN  IF n < 0 THEN <<45>> \o nat(-n) ELSE nat(n)

\* "Command returns code: "
ReturnsCodeText ==
    <<67, 111, 109, 109, 97, 110, 100, 32, 114, 101, 116, 117, 114, 110, 115, 32,
      99, 111, 100, 101, 58, 32>>

\* list += str: every character of the text becomes an element of the list
ListPlusStr(list, text) == list \o [i \in 1..Len(text) |-> <<text[i]>>]

(***************************************************************************)
(* QubeConnection._copy_file_from_dom0.  cp is the local side's behaviour: *)
(* kind "oserror" (open or Popen fails with the message msg: no command    *)
(* reaches the target) or kind "ran" (qvm-run ran and exited with          *)
(* returncode).  cmds logs the step either way, under its kind.            *)
(***************************************************************************)
Copy(kind, code, msg) == [kind |-> kind, returncode |-> code, msg |-> msg]

copy_file_from_dom0(cp) ==
    LET c(ret) == <<[cmd |-> "copy", kind |-> cp.kind, sub |-> cp.returncode,
                     ret |-> ret, raised |-> None]>>
    IN  IF cp.kind = "oserror" THEN [ret_code |-> 1, output |-> cp.msg, cmds |-> c(1)]
        ELSE IF cp.returncode # 0
             THEN [ret_code |-> 1,
                   output |-> ReturnsCodeText \o IntToStr(cp.returncode),
                   cmds |-> c(1)]
             ELSE [ret_code |-> 0, output |-> <<>>, cmds |-> c(0)]

(***************************************************************************)
(* QubeConnection.transfer_agent.  conn is self.__connected, arch whether  *)
(* building the local archive worked, o1 / cp / o3 the behaviour of mkdir, *)
(* of the copy and of tar.                                                 *)
(***************************************************************************)
transfer_steps_copiesAfterMkdirFailure(conn, arch, o1, A, B, o3, C) ==
    LET codeAB == Max(A.ret_code, B.ret_code)
        linesAB == ListPlusStr(A.lines, B.output)
        cmdsAB == <<Cmd("mkdir", o1, A)>> \o B.cmds
    IN  IF ~conn THEN Op("AssertionError", 0, <<>>, <<>>, FALSE, <<>>)
        ELSE IF arch # "ok" THEN Op("OSError", 0, <<>>, <<>>, FALSE, <<>>)
        ELSE IF A.raised # None
             THEN Op(A.raised, 0, <<>>, A.events, A.notified, <<Cmd("mkdir", o1, A)>>)
        ELSE IF codeAB # 0
             THEN Op(None, codeAB, linesAB, A.events, A.notified, cmdsAB)
        ELSE IF C.raised # None
             THEN Op(C.raised, 0, <<>>, A.events \o C.events, A.notified \/ C.notified,
                     Append(cmdsAB, Cmd("tar", o3, C)))
        ELSE Op(None, Max(codeAB, C.ret_code), linesAB \o C.lines,
                A.events \o C.events, A.notified \/ C.notified,
                Append(cmdsAB, Cmd("tar", o3, C)))

transfer_agent_copiesAfterMkdirFailure(conn, arch, o1, cp, o3) ==
    transfer_steps_copiesAfterMkdirFailure(conn, arch, o1, run_shell_command_in_qube(FALSE, o1),
        copy_file_from_dom0(cp), o3, run_shell_command_in_qube(FALSE, o3))

transfer_steps_extractsAfterCopyFailure(conn, arch, o1, A, B, o3, C) ==
    LET codeAB == Max(A.ret_code, B.ret_code)
        linesAB == ListPlusStr(A.lines, B.output)
        cmdsAB == <<Cmd("mkdir", o1, A)>> \o B.cmds
    IN  IF ~conn THEN Op("AssertionError", 0, <<>>, <<>>, FALSE, <<>>)
        ELSE IF arch # "ok" THEN Op("OSError", 0, <<>>, <<>>, FALSE, <<>>)
        ELSE IF A.raised # None
             THEN Op(A.raised, 0, <<>>, A.events, A.notified, <<Cmd("mkdir", o1, A)>>)
        ELSE IF A.ret_code # 0
             THEN Op(None, A.ret_code, A.lines, A.events, A.notified,
                     <<Cmd("mkdir", o1, A)>>)
        ELSE IF C.raised # None
             THEN Op(C.raised, 0, <<>>, A.events \o C.events, A.notified \/ C.notified,
                     Append(cmdsAB, Cmd("tar", o3, C)))
        ELSE Op(None, Max(codeAB, C.ret_code), linesAB \o C.lines,
                A.events \o C.events, A.notified \/ C.notified,
                Append(cmdsAB, Cmd("tar", o3, C)))

transfer_agent_extractsAfterCopyFailure(conn, arch, o1, cp, o3) ==
    transfer_steps_extractsAfterCopyFailure(conn, arch, o1, run_shell_command_in_qube(FALSE, o1),
        copy_file_from_dom0(cp), o3, run_shell_command_in_qube(FALSE, o3))

transfer_steps(conn, arch, o1, A, B, o3, C) ==
    LET codeAB == Max(A.ret_code, B.ret_code)
        linesAB == ListPlusStr(A.lines, B.output)
        cmdsAB == <<Cmd("mkdir", o1, A)>> \o B.cmds
    IN  IF ~conn THEN Op("AssertionError", 0, <<>>, <<>>, FALSE, <<>>)
        ELSE IF arch # "ok" THEN Op("OSError", 0, <<>>, <<>>, FALSE, <<>>)
        ELSE IF A.raised # None
             THEN Op(A.raised, 0, <<>>, A.events, A.notified, <<Cmd("mkdir", o1, A)>>)
        ELSE IF A.ret_code # 0
             THEN Op(None, A.ret_code, A.lines, A.events, A.notified,
                     <<Cmd("mkdir", o1, A)>>)
        ELSE IF codeAB # 0
             THEN Op(None, codeAB, linesAB, A.events, A.notified, cmdsAB)
        ELSE IF C.raised # None
             THEN Op(C.raised, 0, <<>>, A.events \o C.events, A.notified \/ C.notified,
                     Append(cmdsAB, Cmd("tar", o3, C)))
        ELSE Op(None, Max(codeAB, C.ret_code), linesAB \o C.lines,
                A.events \o C.events, A.notified \/ C.notified,
                Append(cmdsAB, Cmd("tar", o3, C)))

transfer_agent(conn, arch, o1, cp, o3) ==
    transfer_steps(conn, arch, o1, run_shell_command_in_qube(FALSE, o1),
        copy_file_from_dom0(cp), o3, run_shell_command_in_qube(FALSE, o3))

(***************************************************************************)
(* QubeConnection.run_entrypoint.  show is self.show_progress, o1 / o2 the *)
(* behaviour of chmod and of the entrypoint.                               *)
(***************************************************************************)
entrypoint_steps(o1, A, o2, B) ==
    LET cA == <<Cmd("chmod", o1, A)>>
        cAB == Append(cA, Cmd("entrypoint", o2, B))
    IN  IF A.raised # None THEN Op(A.raised, 0, <<>>, A.events, A.notified, cA)
        ELSE IF B.raised # None
             THEN Op(B.raised, 0, <<>>, A.events \o B.events, A.notified \/ B.notified, cAB)
        ELSE Op(None, Max(A.ret_code, B.ret_code), A.lines \o B.lines,
                A.events \o B.events, A.notified \/ B.notified, cAB)

run_entrypoint(show, o1, o2) ==
    entrypoint_steps(o1, run_shell_command_in_qube(FALSE, o1),
                     o2, run_shell_command_in_qube(show, o2))

(***************************************************************************)
(* QubeConnection.read_logs                                                *)
(***************************************************************************)
read_logs_result(o, A) ==
    Op(A.raised, A.ret_code, A.lines, A.events, A.notified, <<Cmd("cat", o, A)>>)

read_logs(o) == read_logs_result(o, run_shell_command_in_qube(FALSE, o))

(***************************************************************************)
(* QubeConnection.__exit__.  self holds the object's fields, run_now the   *)
(* target's state when the scope is left, o_rm the behaviour of the rm     *)
(* command, started whether the substrate started the target to run it,    *)
(* sd the behaviour of qube.shutdown() ("ok" or "raise").  steps lists     *)
(* what was done, in order; checked is what is_running() answered.         *)
(***************************************************************************)
exit_steps(self, run_now, o_rm, R, started, sd) ==
    LET ev == IF ~self.status_notified THEN <<StatusInfo_done(SUCCESS)>> ELSE <<>>
        st1 == IF ~self.status_notified THEN <<"success">> ELSE <<>>
        now == IF self.cleanup /\ started THEN TRUE ELSE run_now
        evs == IF self.cleanup THEN ev \o R.events ELSE ev
        ntf == IF self.cleanup THEN self.status_notified \/ R.notified
               ELSE self.status_notified
        cmds == IF self.cleanup THEN <<Cmd("rm", o_rm, R)>> ELSE <<>>
        st2 == IF self.cleanup THEN Append(st1, "rm") ELSE st1
        shut == now /\ ~Truthy(self.initially_running)
    IN  IF self.cleanup /\ R.raised # None
        THEN [events |-> evs, notified |-> ntf, cmds |-> cmds, steps |-> st2,
              checked |-> None, shutdown |-> FALSE, raised |-> R.raised,
              connected |-> self.connected, running |-> run_now]
        ELSE IF shut /\ sd # "ok"
        THEN [events |-> evs, notified |-> ntf, cmds |-> cmds,
              steps |-> Append(st2, "shutdown"),
              checked |-> PyBool(now), shutdown |-> TRUE, raised |-> "ShutdownError",
              connected |-> self.connected, running |-> now]
        ELSE [events |-> evs, notified |-> ntf, cmds |-> cmds,
              steps |-> (IF shut THEN Append(st2, "shutdown") ELSE st2) \o <<"inactive">>,
              checked |-> PyBool(now), shutdown |-> shut, raised |-> None,
              connected |-> FALSE, running |-> IF shut THEN FALSE ELSE now]

session_exit_successAlways(self, run_now, o_rm, started, sd) ==
    [exit_steps([self EXCEPT !.status_notified = FALSE], run_now, o_rm,
                run_shell_command_in_qube(FALSE, o_rm), started, sd)
        EXCEPT !.notified = self.status_notified]

session_exit_reportsError(self, run_now, o_rm, started, sd) ==
    LET x == exit_steps(self, run_now, o_rm, run_shell_command_in_qube(FALSE, o_rm),
                        started, sd)
    IN  [x EXCEPT !.events = [i \in 1..Len(x.events) |->
                                 IF x.events[i] = StatusInfo_done(SUCCESS)
                                 THEN StatusInfo_done("error") ELSE x.events[i]]]

session_exit_resetsFlag(self, run_now, o_rm, started, sd) ==
    [exit_steps(self, run_now, o_rm, run_shell_command_in_qube(FALSE, o_rm), started, sd)
        EXCEPT !.notified = FALSE]

session_exit(self, run_now, o_rm, started, sd) ==
    exit_steps(self, run_now, o_rm, run_shell_command_in_qube(FALSE, o_rm), started, sd)

(***************************************************************************)
(* The inputs of the session model.                                        *)
(***************************************************************************)
\* exit codes a failed command reports: a plain failure, 100
FailureCodes == {1, UpdateCheckCode}

\* what a command prints, tagged with a letter of its own: ESC tag "\n"
\* (mkdir M = 77, tar X = 88, chmod H = 72, entrypoint P = 80, cat L = 76,
\* rm R = 82)
RawOf(tag) == {<<27, tag, 10>>}

WaitOutcomes(tag) ==
    {Outcome("ok", 0, out, <<>>) : out \in RawOf(tag)}
    \cup {Outcome("cpe", c, out, <<>>) : c \in FailureCodes, out \in RawOf(tag)}
    \cup {Raise}

\* diagnostic streams of an entrypoint: progress to 100 and a late number;
\* a line that is no UTF-8
DiagSamples == {<<53, 48, 10, 49, 48, 48, 10, 55, 10>>, <<255, 10>>}

ServiceOutcomes(tag) ==
    {Outcome("proc", c, out, err) :
        c \in {0} \cup FailureCodes, out \in RawOf(tag), err \in DiagSamples}
    \cup {Raise}

CopyOutcomes ==
    {Copy("ran", 0, <<>>), Copy("ran", 1, <<>>), Copy("ran", -9, <<>>),
     Copy("oserror", 0, <<69, 50>>)}

NoCall == [op |-> None, active |-> FALSE, raised |-> None, code |-> 0, lines |-> <<>>]

NoExit == [left |-> FALSE, exc |-> FALSE, ops |-> 0, steps |-> <<>>, checked |-> None,
           shutdown |-> FALSE, raised |-> None, was_running |-> FALSE,
           initially |-> None, cleanup |-> FALSE, notified_before |-> FALSE]

\* commands of a call that returned with the distinguished exit code
Count100(cmds) ==
    Cardinality({i \in 1..Len(cmds) :
        /\ cmds[i].kind \in {"cpe", "proc"}
        /\ cmds[i].sub = UpdateCheckCode
        /\ cmds[i].raised = None})

(***************************************************************************)
(* The session: actions.                                                   *)
(***************************************************************************)
SessionInit ==
    /\ phase = "new"
    /\ connected = FALSE
    /\ initially_running = None
    /\ status_notified = FALSE
    /\ cleanup \in BOOLEAN
    /\ show_progress \in BOOLEAN
    /\ sink = <<>>
    /\ running = FALSE
    /\ issued = <<>>
    /\ last = NoCall
    /\ exitinfo = NoExit
    /\ nops = 0
    /\ scope_ops = 0
    /\ sessions = 0
    /\ seen100 = 0

StreamIdle ==
    /\ pw = <<>>
    /\ nwrites = 0
    /\ errpipe = <<>>
    /\ outpipe = <<>>
    /\ pexited = FALSE
    /\ returncode = 0
    /\ rpc = "idle"
    /\ stderr_buf = <<>>
    /\ stdout_buf = <<>>
    /\ progress_finished = FALSE
    /\ consumed = <<>>
    /\ closed = {}
    /\ waited_after = {}
    /\ sresult = Ran(None, 0, <<<<>>, <<>>>>, <<>>, FALSE)

OutIdle ==
    /\ input = [show |-> FALSE, o |-> Raise]
    /\ output = <<>>

Init == SessionInit /\ StreamIdle /\ OutIdle

\* the effects every operation has on the object and its collaborators
Called(name, r) ==
    /\ nops' = nops + 1
    /\ scope_ops' = scope_ops + 1
    /\ sink' = sink \o r.events
    /\ status_notified' = (status_notified \/ r.notified)
    /\ issued' = r.cmds
    /\ seen100' = seen100 + Count100(r.cmds)
    /\ exitinfo' = NoExit
    /\ last' = [op |-> name, active |-> connected, raised |-> r.raised,
                code |-> r.code, lines |-> r.lines]
    /\ UNCHANGED <<phase, connected, initially_running, cleanup, show_progress,
                   running, sessions>>
    /\ UNCHANGED streamVars
    /\ UNCHANGED outVars

\* __enter__: is_now is the target's state, which it has from elsewhere
Enter ==
    /\ phase \in {"new", "out"}
    /\ sessions < MaxSessions
    /\ \E is_now \in BOOLEAN :
          /\ running' = is_now
          /\ initially_running' = PyBool(is_now)
    /\ connected' = TRUE
    /\ phase' = "in"
    /\ sessions' = sessions + 1
    /\ scope_ops' = 0
    /\ issued' = <<>>
    /\ last' = NoCall
    /\ exitinfo' = NoExit
    /\ UNCHANGED <<status_notified, cleanup, show_progress, sink, nops, seen100>>
    /\ UNCHANGED streamVars
    /\ UNCHANGED outVars

\* For a step that is not reached one behaviour stands for all: the copy is
\* reached when mkdir handed back 0, tar when the copy succeeded as well.
TransferAgent ==
    /\ nops < MaxOps
    /\ \E arch \in {"ok", "raise"}, o1 \in WaitOutcomes(77) :
          LET A == run_shell_command_in_qube(FALSE, o1)
              copies == connected /\ arch = "ok" /\ A.raised = None /\ A.ret_code = 0
          IN  \E cp \in (IF copies THEN CopyOutcomes ELSE {Copy("ran", 0, <<>>)}) :
              \E o3 \in (IF copies /\ copy_file_from_dom0(cp).ret_code = 0
                          THEN WaitOutcomes(88)
                          ELSE {Outcome("ok", 0, out, <<>>) : out \in RawOf(88)}) :
                 Called("transfer_agent", transfer_agent(connected, arch, o1, cp, o3))

RunEntrypoint ==
    /\ nops < MaxOps
    /\ \E o1 \in WaitOutcomes(72) :
          \E o2 \in (IF o1 = Raise THEN {Raise}
                      ELSE IF show_progress THEN ServiceOutcomes(80)
                      ELSE WaitOutcomes(80)) :
             Called("run_entrypoint", run_entrypoint(show_progress, o1, o2))

ReadLogs ==
    /\ nops < MaxOps
    /\ \E o \in WaitOutcomes(76) :
          Called("read_logs", read_logs(o))

\* __exit__: exc tells whether the scope is left by an error, run_now is the
\* target's state by then; qube.shutdown() has a behaviour only when called
Exit ==
    /\ phase = "in"
    /\ \E exc \in BOOLEAN, run_now \in BOOLEAN,
          o_rm \in (IF cleanup THEN WaitOutcomes(82) ELSE {Raise}),
          started \in (IF cleanup THEN BOOLEAN ELSE {FALSE}) :
          LET self == [status_notified |-> status_notified, cleanup |-> cleanup,
                       initially_running |-> initially_running,
                       connected |-> connected]
              calls == session_exit(self, run_now, o_rm, started, "ok").shutdown
          IN  \E sd \in (IF calls THEN {"ok", "raise"} ELSE {"ok"}) :
              LET x == session_exit(self, run_now, o_rm, started, sd)
              IN  /\ sink' = sink \o x.events
                  /\ status_notified' = x.notified
                  /\ issued' = x.cmds
                  /\ seen100' = seen100 + Count100(x.cmds)
                  /\ connected' = x.connected
                  /\ running' = x.running
                  /\ exitinfo' = [left |-> TRUE, exc |-> exc, ops |-> scope_ops, steps |-> x.steps,
                                  checked |-> x.checked, shutdown |-> x.shutdown,
                                  raised |-> x.raised, was_running |-> run_now,
                                  initially |-> initially_running,
                                  cleanup |-> cleanup,
                                  notified_before |-> status_notified]
    /\ phase' = "out"
    /\ last' = NoCall
    /\ UNCHANGED <<initially_running, cleanup, show_progress, nops, scope_ops,
                   sessions>>
    /\ UNCHANGED streamVars
    /\ UNCHANGED outVars

Next == Enter \/ TransferAgent \/ RunEntrypoint \/ ReadLogs \/ Exit

Spec == Init /\ [][Next]_vars

(***************************************************************************)
(* One streamed command: _run_command_and_actively_report_progress at the  *)
(* grain of its reads, with the spawned process and its two pipes.  The    *)
(* process picks a line, blocks until its pipe has room, and on exit       *)
(* closes both pipes; a read returns a line when the pipe holds one and    *)
(* end-of-stream when the pipe is empty and the process has exited.        *)
(***************************************************************************)
\* diagnostic lines: "50\n", "100\n", "x\n", ESC "7\n", and one that is no UTF-8
DiagLines == {<<53, 48, 10>>, <<49, 48, 48, 10>>, <<120, 10>>, <<27, 55, 10>>,
              <<255, 10>>}

\* standard-output lines: "o\n"
StdLines == {<<111, 10>>}

ExitCodes == {0, 1, UpdateCheckCode}

SessionIdle ==
    /\ phase = "new"
    /\ connected = FALSE
    /\ initially_running = None
    /\ status_notified = FALSE
    /\ cleanup = FALSE
    /\ show_progress = TRUE
    /\ sink = <<>>
    /\ running = FALSE
    /\ issued = <<>>
    /\ last = NoCall
    /\ exitinfo = NoExit
    /\ nops = 0
    /\ scope_ops = 0
    /\ sessions = 0
    /\ seen100 = 0

StreamInit == SessionIdle /\ StreamIdle /\ OutIdle

StreamFrame ==
    /\ UNCHANGED <<phase, connected, initially_running, cleanup, show_progress,
                   running, issued, last, exitinfo, nops, scope_ops, sessions, seen100>>
    /\ UNCHANGED outVars

\* target.run_service(...): the process is spawned
RunService ==
    /\ rpc = "idle"
    /\ rpc' = "stderr"
    /\ UNCHANGED <<pw, nwrites, errpipe, outpipe, pexited, returncode, stderr_buf,
                   stdout_buf, progress_finished, consumed, closed, waited_after,
                   sresult, sink, status_notified>>
    /\ StreamFrame

\* the process starts writing a line to one of its channels
ProcWrite ==
    /\ rpc # "idle"
    /\ ~pexited
    /\ pw = <<>>
    /\ nwrites < MaxWrites
    /\ \E w \in {[chan |-> "stderr", line |-> l] : l \in DiagLines}
                \cup {[chan |-> "stdout", line |-> l] : l \in StdLines} :
          pw' = <<w>>
    /\ nwrites' = nwrites + 1
    /\ UNCHANGED <<errpipe, outpipe, pexited, returncode, rpc, stderr_buf, stdout_buf,
                   progress_finished, consumed, closed, waited_after, sresult, sink,
                   status_notified>>
    /\ StreamFrame

\* the write completes once the pipe has room
ProcWriteDone ==
    /\ pw # <<>>
    /\ \/ /\ pw[1].chan = "stderr"
          /\ Len(errpipe) < PipeCap
          /\ errpipe' = Append(errpipe, pw[1].line)
          /\ UNCHANGED outpipe
       \/ /\ pw[1].chan = "stdout"
          /\ Len(outpipe) < PipeCap
          /\ outpipe' = Append(outpipe, pw[1].line)
          /\ UNCHANGED errpipe
    /\ pw' = <<>>
    /\ UNCHANGED <<nwrites, pexited, returncode, rpc, stderr_buf, stdout_buf,
                   progress_finished, consumed, closed, waited_after, sresult, sink,
                   status_notified>>
    /\ StreamFrame

\* the process exits: both write ends are closed
ProcExit ==
    /\ rpc # "idle"
    /\ ~pexited
    /\ pw = <<>>
    /\ pexited' = TRUE
    /\ returncode' \in ExitCodes
    /\ UNCHANGED <<pw, nwrites, errpipe, outpipe, rpc, stderr_buf, stdout_buf,
                   progress_finished, consumed, closed, waited_after, sresult, sink,
                   status_notified>>
    /\ StreamFrame

\* _collect_stderr: readline returned a line
ReadStderrLine ==
    /\ rpc = "stderr"
    /\ errpipe # <<>>
    /\ LET st == collect_stderr_line(
                    StderrState(stderr_buf, progress_finished, <<>>, None),
                    Head(errpipe))
       IN  /\ stderr_buf' = st.stderr
           /\ progress_finished' = st.progress_finished
           /\ sink' = sink \o st.events
           /\ rpc' = IF st.raised # None THEN "raised" ELSE "stderr"
           /\ sresult' = IF st.raised # None
                         THEN Ran(st.raised, 0, <<<<>>, <<>>>>, <<>>, FALSE)
                         ELSE sresult
    /\ errpipe' = Tail(errpipe)
    /\ consumed' = Append(consumed, Head(errpipe))
    /\ UNCHANGED <<pw, nwrites, outpipe, pexited, returncode, stdout_buf, closed,
                   waited_after, status_notified>>
    /\ StreamFrame

\* _collect_stderr: readline returned end-of-stream; proc.stderr.close()
StderrEof ==
    /\ rpc = "stderr"
    /\ errpipe = <<>>
    /\ pexited
    /\ closed' = closed \cup {"stderr"}
    /\ rpc' = "stdout"
    /\ UNCHANGED <<pw, nwrites, errpipe, outpipe, pexited, returncode, stderr_buf,
                   stdout_buf, progress_finished, consumed, waited_after, sresult,
                   sink, status_notified>>
    /\ StreamFrame

\* _collect_stdout: readline returned a line
ReadStdoutLine ==
    /\ rpc = "stdout"
    /\ outpipe # <<>>
    /\ stdout_buf' = stdout_buf \o Head(outpipe)
    /\ outpipe' = Tail(outpipe)
    /\ UNCHANGED <<pw, nwrites, errpipe, pexited, returncode, rpc, stderr_buf,
                   progress_finished, consumed, closed, waited_after, sresult, sink,
                   status_notified>>
    /\ StreamFrame

\* _collect_stdout: readline returned end-of-stream; proc.stdout.close()
StdoutEof ==
    /\ rpc = "stdout"
    /\ outpipe = <<>>
    /\ pexited
    /\ closed' = closed \cup {"stdout"}
    /\ rpc' = "wait"
    /\ UNCHANGED <<pw, nwrites, errpipe, outpipe, pexited, returncode, stderr_buf,
                   stdout_buf, progress_finished, consumed, waited_after, sresult,
                   sink, status_notified>>
    /\ StreamFrame

WaitAndReturn_beforeStdout ==
    /\ rpc = "stdout"
    /\ pexited
    /\ LET m == remap_returncode(returncode)
       IN  /\ sink' = sink \o m.events
           /\ status_notified' = (status_notified \/ m.notified)
           /\ sresult' = Ran(None, m.ret_code, <<stdout_buf, stderr_buf>>, m.events,
                             m.notified)
    /\ waited_after' = closed
    /\ rpc' = "returned"
    /\ UNCHANGED <<pw, nwrites, errpipe, outpipe, pexited, returncode, stderr_buf,
                   stdout_buf, progress_finished, consumed, closed>>
    /\ StreamFrame

\* proc.wait() returns, the exit code is remapped, the command returns
WaitAndReturn ==
    /\ rpc = "wait"
    /\ pexited
    /\ LET m == remap_returncode(returncode)
       IN  /\ sink' = sink \o m.events
           /\ status_notified' = (status_notified \/ m.notified)
           /\ sresult' = Ran(None, m.ret_code, <<stdout_buf, stderr_buf>>, m.events,
                             m.notified)
    /\ waited_after' = closed
    /\ rpc' = "returned"
    /\ UNCHANGED <<pw, nwrites, errpipe, outpipe, pexited, returncode, stderr_buf,
                   stdout_buf, progress_finished, consumed, closed>>
    /\ StreamFrame

StreamNext ==
    \/ RunService \/ ProcWrite \/ ProcWriteDone \/ ProcExit
    \/ ReadStderrLine \/ StderrEof \/ ReadStdoutLine \/ StdoutEof \/ WaitAndReturn

StreamSpec == StreamInit /\ [][StreamNext]_vars

(***************************************************************************)
(* One command over every captured output: _run_shell_command_in_qube      *)
(* applied to a behaviour of the substrate drawn at the start.             *)
(***************************************************************************)
\* "\n", "\r", ESC, "1", "A", DEL, and a byte that is not ASCII
Bytes == {10, 13, 27, 49, 65, 127, 255}

RECURSIVE SeqsUpTo(_, _)
SeqsUpTo(S, n) ==
    IF n = 0 THEN {<<>>}
    ELSE LET shorter == SeqsUpTo(S, n - 1)
         IN  shorter \cup {Append(q, c) : q \in shorter, c \in S}

RawBuffers == SeqsUpTo(Bytes, MaxRaw)

\* the substrate's behaviour for a command whose output b falls to the
\* standard channel up to its byte k and to the diagnostic channel from there
Captured(kind, c, b, k) == Outcome(kind, c, SubSeq(b, 1, k), SubSeq(b, k + 1, Len(b)))

OutInit ==
    /\ SessionIdle
    /\ StreamIdle
    /\ \/ \E b \in RawBuffers : \E k \in 0..Len(b) :
             input = [show |-> FALSE, o |-> Captured("ok", 0, b, k)]
       \/ \E c \in FailureCodes, b \in RawBuffers :
             input = [show |-> FALSE, o |-> Captured("cpe", c, b, Len(b))]
       \/ \E c \in ExitCodes, b \in RawBuffers : \E k \in 0..Len(b) :
             input = [show |-> TRUE, o |-> Captured("proc", c, b, k)]
    /\ output = <<>>

\* the command runs and hands back its CommandResult
RunShellCommand ==
    /\ output = <<>>
    /\ output' = <<run_shell_command_in_qube(input.show, input.o)>>
    /\ UNCHANGED input
    /\ UNCHANGED sessionVars
    /\ UNCHANGED sink
    /\ UNCHANGED streamVars

OutNext == RunShellCommand

OutSpec == OutInit /\ [][OutNext]_vars

(***************************************************************************)
(* One call over every exit code: run_entrypoint, and the two strategies   *)
(* side by side on the same command, applied to a behaviour of the         *)
(* substrate drawn at the start; and _string_sanitization over every line. *)
(***************************************************************************)
\* exit codes the substrate can report: killed by signal 9 (Popen reports
\* -9), success, a plain failure, 100
SubstrateCodes == {-9, 0, 1, UpdateCheckCode}

\* run_with_args: returns, or raises CalledProcessError with a nonzero code
WaitOutcomeOf(c, out, err) ==
    IF c = 0 THEN Outcome("ok", 0, out, err) ELSE Outcome("cpe", c, out, <<>>)

CodedWaitOutcomes(tag) ==
    {WaitOutcomeOf(c, out, <<>>) : c \in SubstrateCodes, out \in RawOf(tag)} \cup {Raise}

CodedServiceOutcomes(tag) ==
    {Outcome("proc", c, out, err) :
        c \in SubstrateCodes, out \in RawOf(tag), err \in DiagSamples}
    \cup {Raise}

CallInit ==
    /\ SessionIdle
    /\ StreamIdle
    /\ \/ \E a \in CodedWaitOutcomes(72), b \in CodedWaitOutcomes(80) :
             input = [op |-> "run_entrypoint", show |-> FALSE, o1 |-> a, o2 |-> b]
       \/ \E a \in CodedWaitOutcomes(72), b \in CodedServiceOutcomes(80) :
             input = [op |-> "run_entrypoint", show |-> TRUE, o1 |-> a, o2 |-> b]
       \/ \E c \in SubstrateCodes, out \in RawBuffers, err \in DiagSamples :
             input = [op |-> "strategies", show |-> TRUE,
                      o1 |-> WaitOutcomeOf(c, out, err),
                      o2 |-> Outcome("proc", c, out, err)]
       \/ \E l \in RawBuffers : input = [op |-> "sanitize", line |-> l]
    /\ output = <<>>

CallFrame ==
    /\ UNCHANGED input
    /\ UNCHANGED sessionVars
    /\ UNCHANGED sink
    /\ UNCHANGED streamVars

\* run_entrypoint is called and hands back its result
CallRunEntrypoint ==
    /\ input.op = "run_entrypoint"
    /\ output = <<>>
    /\ output' = <<run_entrypoint(input.show, input.o1, input.o2)>>
    /\ CallFrame

\* the same command through the wait strategy and through the streaming one
CallStrategies ==
    /\ input.op = "strategies"
    /\ output = <<>>
    /\ output' = <<run_command_and_wait_for_output(input.o1),
                   run_command_and_actively_report_progress(input.o2)>>
    /\ CallFrame

\* _string_sanitization on a line, and on what it returned
CallSanitize ==
    /\ input.op = "sanitize"
    /\ output = <<>>
    /\ output' = <<string_sanitization(input.line),
                   string_sanitization(string_sanitization(input.line))>>
    /\ CallFrame

CallNext == CallRunEntrypoint \/ CallStrategies \/ CallSanitize

CallSpec == CallInit /\ [][CallNext]_vars

(***************************************************************************)
(* Vocabulary of the claims.                                               *)
(***************************************************************************)
DoneSuccess == [qname |-> "qube", status |-> "done", info |-> "success"]

DoneNoUpdates == [qname |-> "qube", status |-> "done", info |-> "no updates"]

CountOf(events, e) == Cardinality({i \in 1..Len(events) : events[i] = e})

\* the last call was __exit__
JustExited == phase = "out" /\ exitinfo.left

\* the step named cmd of the last call, as a set (empty when not reached)
StepsNamed(cmd) == {i \in 1..Len(issued) : issued[i].cmd = cmd}

\* steps of the last call that sent a command to the target
SentToTarget == {i \in 1..Len(issued) : issued[i].kind # "oserror"}

\* the target as __exit__ saw it, or as it was when __exit__ never looked
RunningAtExit ==
    IF exitinfo.checked # None THEN exitinfo.checked = "True" ELSE exitinfo.was_running

(***************************************************************************)
(* C1.  However the scope is left (normal return, an error raised inside,  *)
(* no operation at all), __exit__ issues the rm command when cleanup was   *)
(* requested, calls shutdown exactly when the target is running at exit    *)
(* and was not running at entry, and leaves the session inactive.          *)
(* Stated as written; the code violates it when a teardown step raises.    *)
(***************************************************************************)
C1_ExitAlwaysTearsDown ==
    JustExited =>
        /\ exitinfo.cleanup => StepsNamed("rm") # {}
        /\ exitinfo.shutdown <=> (RunningAtExit /\ exitinfo.initially # "True")
        /\ ~connected

(***************************************************************************)
(* C2.  A failing teardown step neither stops teardown nor escapes it: if  *)
(* rm fails (nonzero exit code, or the substrate raising), the shutdown    *)
(* check still runs and the session is marked inactive; if shutdown fails  *)
(* the session is marked inactive; no error leaves __exit__.               *)
(* Stated as written; the code violates it.                                *)
(***************************************************************************)
C2_TeardownFailureIsContained ==
    JustExited =>
        /\ (\E i \in StepsNamed("rm") : issued[i].raised # None \/ issued[i].sub # 0)
              => exitinfo.checked # None /\ ~connected
        /\ exitinfo.shutdown => ~connected
        /\ exitinfo.raised = None

(***************************************************************************)
(* C3.  Every command whose substrate exit code is 100 hands 0 back, and   *)
(* once a command has returned 100 the sink holds exactly one              *)
(* Done/NoUpdatesAvailable event, however many commands return 100.        *)
(* Stated as written; the code puts one event per such command.            *)
(***************************************************************************)
C3_OneNoUpdatesEvent ==
    /\ \A i \in 1..Len(issued) :
          (issued[i].kind \in {"cpe", "proc"} /\ issued[i].sub = 100
           /\ issued[i].raised = None) => issued[i].ret = 0
    /\ seen100 >= 1 => CountOf(sink, DoneNoUpdates) = 1

(***************************************************************************)
(* C4.  A session entered and left with no operation and no error has put  *)
(* exactly one event, Done/Success, whatever the cleanup flag and whatever *)
(* the exit code of the rm command.                                        *)
(* Stated as written; the code puts a second event when rm exits with 100. *)
(***************************************************************************)
C4_IdleSessionPutsOneSuccess ==
    (JustExited /\ sessions = 1 /\ nops = 0 /\ ~exitinfo.exc /\ exitinfo.raised = None)
        => sink = <<DoneSuccess>>

(***************************************************************************)
(* C5.  transfer_agent, run_entrypoint and read_logs called on a session   *)
(* that is not active fail at once and send no command to the target.      *)
(* Stated as written; only transfer_agent checks.                          *)
(***************************************************************************)
C5_OperationsRequireActiveSession ==
    (last.op # None /\ ~last.active) =>
        last.raised = "AssertionError" /\ SentToTarget = {}

(***************************************************************************)
(* C6.  A streamed command never deadlocks: with bounded pipes and a       *)
(* process writing finitely much to both channels in any order, the        *)
(* command can always take a step until it has returned (or raised).       *)
(* Stated as written; the code drains stderr to its end before it reads    *)
(* stdout, so a process blocked on a full stdout pipe blocks it for ever.  *)
(***************************************************************************)
C6_StreamingNeverDeadlocks ==
    rpc \in {"returned", "raised"} \/ ENABLED StreamNext

(***************************************************************************)
(* C7, as written: when mkdir (step A) fails with a nonzero code the copy  *)
(* (step B) is still performed.                                            *)
(***************************************************************************)
C7_MkdirFailureStillCopies ==
    (last.op = "transfer_agent" /\ last.raised = None
     /\ \E i \in StepsNamed("mkdir") : issued[i].ret # 0)
        => StepsNamed("copy") # {}

(***************************************************************************)
(* C7, amended: when mkdir (step A) hands back a nonzero code,             *)
(* transfer_agent returns at once: mkdir is its only step, and the result  *)
(* is A's code with A's lines (the line "M" of its error output, which     *)
(* the wait strategy captures twice).                                      *)
(***************************************************************************)
C7_MkdirFailureAborts ==
    (last.op = "transfer_agent" /\ last.raised = None
     /\ \E i \in StepsNamed("mkdir") : issued[i].ret # 0)
        => /\ Len(issued) = 1
           /\ last.code = issued[1].ret
           /\ last.lines = <<<<77>>, <<77>>>>

C7_Witness ==
    /\ last.op = "transfer_agent"
    /\ last.raised = None
    /\ Len(issued) = 1
    /\ issued[1].cmd = "mkdir"
    /\ issued[1].sub = 1
    /\ last.code = 1

(***************************************************************************)
(* C8.  When mkdir succeeds and the copy fails, the tar command is never   *)
(* issued, the returned code is max(0, copy's code) and is nonzero, and no *)
(* returned line is output of the extraction (the line "X").               *)
(***************************************************************************)
C8_CopyFailureSkipsExtraction ==
    (last.op = "transfer_agent" /\ last.raised = None
     /\ (\E i \in StepsNamed("mkdir") : issued[i].ret = 0)
     /\ (\E j \in StepsNamed("copy") : issued[j].ret # 0))
        => /\ StepsNamed("tar") = {}
           /\ \A j \in StepsNamed("copy") :
                 last.code = (IF issued[j].ret > 0 THEN issued[j].ret ELSE 0)
           /\ last.code # 0
           /\ \A k \in 1..Len(last.lines) : last.lines[k] # <<88>>

C8_Witness ==
    /\ last.op = "transfer_agent"
    /\ last.raised = None
    /\ Len(issued) = 2
    /\ issued[1].ret = 0
    /\ issued[2].cmd = "copy"
    /\ issued[2].kind = "ran"
    /\ issued[2].ret = 1
    /\ last.code = 1

(***************************************************************************)
(* C9.  The diagnostic classifier is a one-way latch.  Of the lines read   *)
(* so far: each line that parses as a number, up to and including the      *)
(* first that equals 100.0, gave one Pending event with its value, in      *)
(* order, and is not in the captured text; every other line (not a         *)
(* number, or after the first 100.0) is in the captured text verbatim.     *)
(* Stated as written; the code raises on a line that is not UTF-8.         *)
(***************************************************************************)
LineValue(l) == ParseFloat(string_sanitization(rstrip(l)))

IsNumberLine(l) == CanDecode(l) /\ LineValue(l).ok

LatchIndex(ls) ==
    LET hundreds == {i \in 1..Len(ls) : IsNumberLine(ls[i]) /\ IsHundred(LineValue(ls[i]))}
    IN  IF hundreds = {} THEN Len(ls) + 1
        ELSE CHOOSE i \in hundreds : \A j \in hundreds : i <= j

RECURSIVE ExpectedPending(_, _)
ExpectedPending(ls, i) ==
    IF i > Len(ls) \/ i > LatchIndex(ls) THEN <<>>
    ELSE (IF IsNumberLine(ls[i])
          THEN <<[qname |-> "qube", status |-> "pending",
                  info |-> [int |-> LineValue(ls[i]).int, frac |-> LineValue(ls[i]).frac]]>>
          ELSE <<>>) \o ExpectedPending(ls, i + 1)

RECURSIVE ExpectedText(_, _)
ExpectedText(ls, i) ==
    IF i > Len(ls) THEN <<>>
    ELSE (IF i > LatchIndex(ls) \/ ~IsNumberLine(ls[i]) THEN ls[i] ELSE <<>>)
         \o ExpectedText(ls, i + 1)

C9_DiagnosticLatch ==
    /\ SelectSeq(sink, LAMBDA e : e.status = "pending") = ExpectedPending(consumed, 1)
    /\ stderr_buf = ExpectedText(consumed, 1)

(***************************************************************************)
(* C10.  Every line of the CommandResult a command returns, by either      *)
(* strategy, on success or failure, holds only characters in [0x20, 0x7E], *)
(* whatever bytes the target's output holds.                               *)
(***************************************************************************)
C10_ResultLinesArePrintable ==
    \A r \in {output[i] : i \in 1..Len(output)} :
        \A k \in 1..Len(r.lines) :
            \A n \in 1..Len(r.lines[k]) : r.lines[k][n] >= 32 /\ r.lines[k][n] <= 126

C10_Witness ==
    /\ output # <<>>
    /\ input.show
    /\ input.o.returncode = 1
    /\ input.o.stdout = <<127>>
    /\ input.o.stderr = <<27, 65>>
    /\ output[1].raised = None
    /\ output[1].lines = <<<<65>>>>

(***************************************************************************)
(* C11.  In run_entrypoint no step's failure is masked: when chmod (step   *)
(* A) or the entrypoint (step B) hands back a nonzero exit code, negative  *)
(* codes included, the code run_entrypoint returns is nonzero.             *)
(* Stated as written; the code combines with max(), so a negative code     *)
(* next to a 0 gives 0.                                                    *)
(***************************************************************************)
C11_NoStepFailureIsMasked ==
    (input.op = "run_entrypoint" /\ output # <<>> /\ output[1].raised = None)
        => \A k \in 1..Len(output[1].cmds) :
              output[1].cmds[k].ret # 0 => output[1].code # 0

(***************************************************************************)
(* C12.  _string_sanitization(s) is the subsequence of the characters of s *)
(* with code point in [0x20, 0x7E], in their order (the others are         *)
(* dropped, not replaced), and sanitizing its result again changes nothing.*)
(***************************************************************************)
RECURSIVE PrintableSubsequence(_)
PrintableSubsequence(s) ==
    IF s = <<>> THEN <<>>
    ELSE (IF Head(s) >= 32 /\ Head(s) <= 126 THEN <<Head(s)>> ELSE <<>>)
         \o PrintableSubsequence(Tail(s))

C12_SanitizeIsPrintableSubsequence ==
    (input.op = "sanitize" /\ output # <<>>)
        => /\ output[1] = PrintableSubsequence(input.line)
           /\ output[2] = output[1]

C12_Witness ==
    /\ input.op = "sanitize"
    /\ input.line = <<27, 65>>
    /\ output = <<<<65>>, <<65>>>>

(***************************************************************************)
(* C13.  transfer_agent returns whole lines in step order: when the copy   *)
(* fails, mkdir's lines (the line "M") followed by the copy's error        *)
(* message as one line; when all three steps run, mkdir's lines and then   *)
(* tar's (lines "X"), the successful copy having no output.                *)
(* Stated as written; the code extends the list of lines with the message, *)
(* a str, which appends each of its characters as a line of its own.       *)
(***************************************************************************)
CopyMessage(step) ==
    IF step.kind = "oserror" THEN <<69, 50>> ELSE ReturnsCodeText \o IntToStr(step.sub)

\* the lines of a wait-strategy step that printed the line l: once when it
\* succeeded, twice when it failed (its error output is captured twice)
StepLines(step, l) == IF step.kind = "cpe" THEN <<l, l>> ELSE <<l>>

C13_TransferLinesAreWholeLines ==
    (last.op = "transfer_agent" /\ last.raised = None)
        => /\ \A j \in StepsNamed("copy") :
                 issued[j].ret # 0
                    => last.lines = StepLines(issued[1], <<77>>)
                                    \o <<CopyMessage(issued[j])>>
           /\ \A k \in StepsNamed("tar") :
                 last.lines = StepLines(issued[1], <<77>>) \o StepLines(issued[k], <<88>>)

(***************************************************************************)
(* C14.  Both strategies treat the command's exit code c alike: for        *)
(* c = 100 each returns 0, puts one Done/NoUpdatesAvailable event and sets *)
(* status_notified; for any other c each returns c and puts no final       *)
(* event.  The streaming strategy has an exit code once it has drained the *)
(* process's channels and awaited it.                                      *)
(***************************************************************************)
FinalEvents(events) == SelectSeq(events, LAMBDA e : e.status = "done")

TreatsCodeAsSpecified(r, c) ==
    IF c = UpdateCheckCode
    THEN r.ret_code = 0 /\ FinalEvents(r.events) = <<DoneNoUpdates>> /\ r.notified
    ELSE r.ret_code = c /\ FinalEvents(r.events) = <<>> /\ ~r.notified

C14_StrategiesRemapAlike ==
    (input.op = "strategies" /\ output # <<>>)
        => /\ output[1].raised = None
           /\ TreatsCodeAsSpecified(output[1], input.o2.returncode)
           /\ output[2].raised = None
                 => /\ TreatsCodeAsSpecified(output[2], input.o2.returncode)
                    /\ output[2].ret_code = output[1].ret_code
                    /\ output[2].notified = output[1].notified

C14_Witness ==
    /\ input.op = "strategies"
    /\ input.o2.returncode = UpdateCheckCode
    /\ output # <<>>
    /\ output[1].ret_code = 0
    /\ output[1].events = <<DoneNoUpdates>>
    /\ output[2].raised = None
    /\ output[2].ret_code = 0
    /\ Len(output[2].events) = 3
    /\ output[2].events[3] = DoneNoUpdates

(***************************************************************************)
(* C15.  __exit__ tears down in a fixed order, however the scope was left: *)
(* Done/Success comes first and is put exactly when status_notified was    *)
(* not set; then the rm command, when cleanup was requested; then          *)
(* shutdown, when the target is running and was not at entry; and the      *)
(* session is marked inactive only after all of these.                     *)
(***************************************************************************)
TeardownRank(step) ==
    CASE step = "success" -> 1
      [] step = "rm" -> 2
      [] step = "shutdown" -> 3
      [] OTHER -> 4

TeardownDid(step) == \E i \in 1..Len(exitinfo.steps) : exitinfo.steps[i] = step

C15_TeardownOrder ==
    JustExited
        => /\ \A i \in 1..Len(exitinfo.steps) : \A j \in 1..Len(exitinfo.steps) :
                 i < j => TeardownRank(exitinfo.steps[i]) < TeardownRank(exitinfo.steps[j])
           /\ TeardownDid("success") <=> ~exitinfo.notified_before
           /\ TeardownDid("rm") => exitinfo.cleanup
           /\ TeardownDid("shutdown")
                 => /\ TeardownDid("rm") <=> exitinfo.cleanup
                    /\ RunningAtExit /\ exitinfo.initially # "True"
           /\ TeardownDid("inactive")
                 => /\ TeardownDid("rm") <=> exitinfo.cleanup
                    /\ TeardownDid("shutdown")
                          <=> (RunningAtExit /\ exitinfo.initially # "True")
                    /\ ~connected

C15_Witness ==
    /\ JustExited
    /\ exitinfo.exc
    /\ exitinfo.ops > 0
    /\ exitinfo.steps = <<"success", "rm", "shutdown", "inactive">>
    /\ ~connected

(***************************************************************************)
(* C16.  In the streaming strategy the process is awaited only after both  *)
(* channels were read to end-of-stream and closed, and the command's       *)
(* Done/NoUpdatesAvailable event comes after all its Pending events.       *)
(***************************************************************************)
C16_AwaitAfterDrain ==
    /\ rpc = "returned"
          => /\ waited_after = {"stderr", "stdout"}
             /\ errpipe = <<>> /\ outpipe = <<>> /\ pexited
    /\ \A i \in 1..Len(sink) : \A j \in 1..Len(sink) :
          (i < j /\ sink[i] = DoneNoUpdates) => sink[j].status # "pending"

C16_Witness ==
    /\ rpc = "returned"
    /\ stdout_buf # <<>>
    /\ Len(sink) = 3
    /\ sink[1].status = "pending"
    /\ sink[2].status = "pending"
    /\ sink[3] = DoneNoUpdates

(***************************************************************************)
(* C17.  The session reports success whatever happened in the scope: the   *)
(* only events it ever puts are Pending, Done/NoUpdatesAvailable and       *)
(* Done/Success, and __exit__ puts Done/Success, also after commands that  *)
(* failed and when the scope was left by an error, provided no command     *)
(* returned 100 before.                                                    *)
(***************************************************************************)
C17_OnlySuccessIsReported ==
    /\ \A i \in 1..Len(sink) :
          sink[i].status = "pending" \/ sink[i] \in {DoneNoUpdates, DoneSuccess}
    /\ (JustExited /\ seen100 = Count100(issued))
          => /\ TeardownDid("success")
             /\ CountOf(sink, DoneSuccess) >= 1
             /\ sink[Len(sink) - Count100(issued)] = DoneSuccess

C17_Witness ==
    /\ JustExited
    /\ exitinfo.exc
    /\ exitinfo.ops = MaxOps
    /\ seen100 = 0
    /\ Last(sink) = DoneSuccess

(***************************************************************************)
(* C18.  status_notified is monotone: it starts false, only a command that *)
(* returned exit code 100 sets it, and nothing, __enter__ and __exit__     *)
(* included, resets it; so an object entered again after a 100 was seen    *)
(* puts no Done/Success when it is left again.                             *)
(***************************************************************************)
C18_FlagIsMonotone ==
    /\ ~status_notified
    /\ [][/\ status_notified => status_notified'
          /\ (~status_notified /\ status_notified') => Count100(issued') > 0]_vars
    /\ []((JustExited /\ exitinfo.notified_before) => ~TeardownDid("success"))

C18_Witness ==
    /\ sessions = 2
    /\ JustExited
    /\ exitinfo.ops = 0
    /\ exitinfo.notified_before
    /\ ~TeardownDid("success")
    /\ TeardownDid("inactive")
    /\ CountOf(sink, DoneNoUpdates) >= 1

(***************************************************************************)
(* C19, as written: when a wait-strategy command fails with error output   *)
(* O, every complete line of O (one ended by a line boundary) appears      *)
(* twice among the returned lines.                                         *)
(***************************************************************************)
SanitizedLines(text) ==
    [i \in 1..Len(splitlines(text)) |-> PrintableSubsequence(splitlines(text)[i])]

EndsLine(text) == text = <<>> \/ IsLineBreak(Last(text))

CompleteLines(text) ==
    IF EndsLine(text) THEN SanitizedLines(text) ELSE Front(SanitizedLines(text))

C19_ErrorLinesAppearTwice ==
    (input.o.kind = "cpe" /\ output # <<>>)
        => \A i \in 1..Len(CompleteLines(DecodeAsciiIgnore(input.o.stdout))) :
              CountOf(output[1].lines,
                      CompleteLines(DecodeAsciiIgnore(input.o.stdout))[i]) >= 2

(***************************************************************************)
(* C19, amended: the error output O, less its non-ASCII bytes, is captured *)
(* twice and split as one text O O.  The returned lines are the sanitized  *)
(* lines of O twice over when O ends with a line boundary that does not    *)
(* merge with the start of the second copy ("\r" before "\n"); otherwise   *)
(* the unterminated last line of O and the first line of the second copy   *)
(* are one line.                                                           *)
(***************************************************************************)
C19_ErrorOutputIsCapturedTwice ==
    (input.o.kind = "cpe" /\ output # <<>>)
        => LET O == DecodeAsciiIgnore(input.o.stdout)
               whole == EndsLine(O) /\ ~(O # <<>> /\ Last(O) = 13 /\ Head(O) = 10)
           IN  /\ output[1].raised = None
               /\ output[1].lines = SanitizedLines(O \o O)
               /\ whole => output[1].lines = SanitizedLines(O) \o SanitizedLines(O)
               /\ (~EndsLine(O))
                     => output[1].lines =
                           Front(SanitizedLines(O))
                           \o <<Last(SanitizedLines(O)) \o Head(SanitizedLines(O))>>
                           \o Tail(SanitizedLines(O))

C19_Witness ==
    /\ input.o.kind = "cpe"
    /\ input.o.returncode = UpdateCheckCode
    /\ input.o.stdout = <<65, 10>>
    /\ output # <<>>
    /\ output[1].ret_code = 0
    /\ output[1].lines = <<<<65>>, <<65>>>>

====
